---------------------------- MODULE Spec2Model ----------------------------
(***************************************************************************)
(* pg-event-server: Postgres NOTIFY -> SSE hub.                            *)
(*                                                                         *)
(* The event pipeline                                                      *)
(*   Postgres -> polling task -> forwarder -> dispatcher -> watch bus      *)
(*            -> worker (Broadcaster) -> SSE clients                       *)
(* as a state machine.  Startup (EventDispatch::connect) is part of the    *)
(* machine: the pool and the channel bindings are built one configured     *)
(* channel at a time.                                                      *)
(*                                                                         *)
(* The field `origin` of a notification (the session it was read from, its *)
(* rank in that session, and what Postgres sent) and the variables marked  *)
(* history are not held by the program: they record what it did.           *)
(***************************************************************************)
EXTENDS Integers, Sequences, FiniteSets, TLC

(***************************************************************************)
(* Bounds of the model.                                                    *)
(***************************************************************************)
\* number of [[channel]] entries of the configuration
MaxChannels == 2
\* notifications read from Postgres in one behaviour
MaxNotif == 3
\* Settings.events_buffer_size as configured in the model (default 1024)
EventsBufferSize == 2
\* connections lost in one behaviour
MaxLost == 2

\* [[channel]] entries of the main configuration file (Settings::from_file)
MaxFileChannels == 2
\* [[channel]] entries of the drop-in files of <conf_stem>.d
MaxDropInChannels == 1

\* lines of the passfile
MaxPassLines == 2
\* items an iterator given to Values::from_iter yields
MaxValues == 3

(***************************************************************************)
(* Program constants.                                                      *)
(***************************************************************************)
\* mpsc::channel(1) between a polling task and its forwarder
SessionQueueSize == 1
\* Settings.worker_buffer_size (default_worker_buffer_size): frames an sse
\* channel holds
BufferSize == 1

(***************************************************************************)
(* Value spaces.                                                           *)
(***************************************************************************)
\* channel names a Notification can carry
EventNames == {"a", "b"}
Payloads == {"p"}
\* allowed_events of a channel: Vec<String>
EventLists == {<<>>, <<"a">>, <<"b", "A">>}
\* resolved connection descriptors (pg_client_config::load_config); `opt`
\* stands for every parameter use_same_connection does not compare
Descriptors ==
    { [host |-> "db1", dbname |-> "shop",  user |-> "app", opt |-> "x"],
      [host |-> "db1", dbname |-> "shop",  user |-> "app", opt |-> "y"],
      [host |-> "db2", dbname |-> "shop",  user |-> "app", opt |-> "x"] }
\* pg_backend_pid() values: one per session the pool can hold
BackendPids == 1..MaxChannels
ChannelNames == <<"orders", "stock", "audit", "misc">>

\* HTTP workers (server.num_workers = 1)
Workers == {"w1"}
\* Channel.ident values Uuid::new_v4 can return
Idents == {"u1", "u2"}
\* {id} of GET /events/subscribe/{id}
SubscribePaths == {"orders", "stock", "nope"}
\* X-Identity header: absent, visible ASCII, or bytes HeaderValue::to_str rejects
IdentityHeaders == {"absent", "ascii", "opaque"}

VARIABLES
    settings,   \* Settings: [channels: Seq(ChannelConfig)]
    boot,       \* EventDispatch::connect progress: [i, status]
    pool,       \* Pool.pool: Seq of PgEventDispatcher
    fwd,        \* per pool entry: dispatch_id captured by its forwarder task
    sq,         \* per pool entry: mpsc(1) polling task -> forwarder
    channels,   \* EventDispatch.channels: Seq of events::Channel
    boundTo,    \* history: per channel, pool index add_connection bound it to
    dq,         \* mpsc(events_buffer_size) forwarders -> dispatcher
    nread,      \* history: per pool entry, notifications read from Postgres
    outEvent,   \* Event built by dispatch, being handed to tx.send
    nextId,     \* stands for Uuid::new_v4: next fresh event id
    dlog,       \* history: the latest notification the dispatcher took, and
                \* the number logged as unprocessed so far
    bus,        \* watch channel: [value, version]
    receivers,  \* whether any watch::Receiver of the bus is alive
    sendErrors, \* history: publishes that failed for want of a receiver
    sweep,      \* Pool::reconnect: progress and history of the latest sweep
    nlost,      \* history: connections lost so far
    nfwd,       \* per pool entry: forwarder tasks running for the session
    nrecv,      \* history: per pool entry, notifications the dispatcher took
    strays,     \* polling tasks still in their loop after their stream ended
    call,       \* a library function applied to an input: [op, in, out]
    rlock,      \* workers holding a watch::Ref (read lock on the bus value)
    seen,       \* per worker: bus version its Receiver has marked seen
    wpc,        \* per worker: position of its start_event_listener task
    wev,        \* per worker: the Event its watch::Ref points to
    sends,      \* per worker: state of each send future of the join_all
    subs,       \* per worker: Broadcaster.subs, ChanId -> Seq of clients
    pending,    \* per worker: Broadcaster.pending_subscriptions
    clients,    \* per ident: the subscribe::Channel and its stream's state
    buf,        \* per ident: frames queued in the sse channel
    received,   \* history: per ident, frames the HTTP stream has taken
    lastSub,    \* history: outcome of the latest do_subscribe
    lastCycle,  \* history: per worker, the latest completed broadcast cycle
    reaped,     \* history: clients whose send failed in a completed cycle
    lateSends,  \* history: clients sent to after they were reaped
    bcastLog    \* history: per worker, the Events it broadcast

lifeVars == <<receivers, sendErrors, sweep, nlost, strays, call>>
dispatchVars == <<settings, boot, pool, fwd, nfwd, sq, channels, boundTo, dq, nread,
                  nrecv, outEvent, nextId, dlog, bus, lifeVars>>
workerVars == <<seen, wpc, wev, sends, subs, pending, clients, buf, received,
                lastSub, lastCycle, reaped, lateSends, bcastLog>>
vars == <<dispatchVars, rlock, workerVars>>

NoEvent == [id |-> -1]
NoDispatch == [dispatch_id |-> -1]
NoClient == [status |-> "none", id |-> -1, path |-> "", worker |-> ""]
NoResponse == [status |-> 0, body |-> ""]
NoSubscribe == [path |-> "", result |-> "none", client |-> "", response |-> NoResponse]
NoCycle == [start |-> {}, ok |-> {}, failed |-> {}, drained |-> {}, panicked |-> FALSE]
NoCall == [op |-> "none"]
NoSweep == [phase |-> "idle", todo |-> {}, start |-> <<>>, after |-> <<>>, errors |-> {}]

Range(f) == { f[x] : x \in DOMAIN f }

\* events::ChanIds
One(first) == [tag |-> "One", v |-> <<first>>]
Many(v) == [tag |-> "Many", v |-> v]

\* Event::default(): the initial value of the watch channel
DefaultEvent ==
    [id |-> 0, event |-> "", payload |-> "", channels |-> Many(<<>>),
     origin |-> [sess |-> 0, seq |-> 0, channel |-> "", payload |-> "",
                 respawned |-> FALSE]]

\* Event::new
NewEvent(id, notification, ids) ==
    [id |-> id, event |-> notification.channel, payload |-> notification.payload,
     channels |-> ids, origin |-> notification.origin]

\* Event::channels
EventChannels(ev) == ev.channels.v

\* every configuration Settings::validate accepts, up to MaxChannels channels
ChannelConfigs(i) ==
    { [id |-> ChannelNames[i], allowed_events |-> es, connection |-> d] :
        es \in EventLists, d \in Descriptors }

AllSettings ==
    UNION { { [channels |-> cs] :
                cs \in { s \in [1..n -> UNION {ChannelConfigs(i) : i \in 1..n}] :
                           \A i \in 1..n : s[i].id = ChannelNames[i] } } :
            n \in 1..MaxChannels }

----------------------------------------------------------------------------
(***************************************************************************)
(* Pure functions of the dispatcher and the pool.                          *)
(***************************************************************************)

\* is_listening_for without the comparison of the event name
IsListeningForAnyEvent(chan, dispatch_id, event) ==
    /\ chan.dispatch_id = dispatch_id
    /\ Len(chan.events) > 0

\* Channel::is_listening_for
IsListeningFor(chan, dispatch_id, event) ==
    /\ chan.dispatch_id = dispatch_id
    /\ \E j \in 1..Len(chan.events) : chan.events[j] = event

\* channels.iter().enumerate().filter_map(...): the matching positions, in
\* iteration order
RECURSIVE Candidates(_, _, _, _)
Candidates(chans, dispatch_id, event, i) ==
    IF i > Len(chans) THEN <<>>
    ELSE (IF IsListeningFor(chans[i], dispatch_id, event) THEN <<i - 1>> ELSE <<>>)
         \o Candidates(chans, dispatch_id, event, i + 1)

\* a ChanIds that drops the candidates
MakeChanIdsNone(c) == Many(<<>>)

\* the ChanIds built in the dispatch loop from a non-empty candidate list
MakeChanIds(c) == IF Len(c) = 1 THEN One(c[1]) ELSE Many(<<c[1], c[2]>> \o SubSeq(c, 3, Len(c)))

\* a comparison of the whole descriptor
UseSameConnectionExact(dispatcher, config) == dispatcher.config = config

\* Pool::use_same_connection
UseSameConnection(dispatcher, config) ==
    /\ dispatcher.config.host = config.host
    /\ dispatcher.config.dbname = config.dbname
    /\ dispatcher.config.user = config.user

\* self.pool.iter_mut().find(...): first matching pool index, 0 when none
FindConnection(p, config) ==
    IF \E k \in 1..Len(p) : UseSameConnection(p[k], config)
    THEN CHOOSE k \in 1..Len(p) :
            /\ UseSameConnection(p[k], config)
            /\ \A j \in 1..(k - 1) : ~UseSameConnection(p[j], config)
    ELSE 0

\* pids of the live backends of a server
LivePids(p, host) ==
    { p[k].session_pid : k \in { j \in 1..Len(p) : p[j].config.host = host /\ ~p[j].closed } }

\* SELECT pg_backend_pid() on a new connection to `host`: live backends of
\* one server have distinct pids, backends of different servers need not.
\* Only which sessions share a pid matters, so a pid no session has yet is
\* taken to be the least one.
NewPids(p, host) ==
    LET used == { p[k].session_pid : k \in 1..Len(p) }
        unused == BackendPids \ used
    IN  { pid \in BackendPids \ LivePids(p, host) :
            pid \in used \/ \A q \in unused : pid <= q }

\* a listen() that forgets what the session listened to before
ListenAllReplace(events, allowed) == { allowed[j] : j \in 1..Len(allowed) }

\* HashSet<String> after listen() of every entry of a Vec
ListenAll(events, allowed) == events \cup { allowed[j] : j \in 1..Len(allowed) }

\* the channel `LISTEN {channel};` registers: the name is sent unquoted, and
\* Postgres folds an unquoted identifier to lower case
ListenChannel(name) == IF name = "A" THEN "a" ELSE IF name = "B" THEN "b" ELSE name

\* the channels registered on a connection after LISTEN of each of `names`
Listening(names) == { ListenChannel(n) : n \in names }

\* two descriptors with the same hosts, dbname and user
SameTriple(c, d) == c.host = d.host /\ c.dbname = d.dbname /\ c.user = d.user


\* notifications read so far, over all sessions
RECURSIVE TotalRead(_)
TotalRead(n) == IF n = <<>> THEN 0 ELSE Head(n) + TotalRead(Tail(n))

\* a queue that hands out the newest message first
QueuePushFront(q, x) == <<x>> \o q

\* a queue that always takes one more message
HasRoomAlways(q, capacity) == TRUE

\* mpsc::Sender::send resolves when the queue holds less than its capacity;
\* until then the sender waits
HasRoom(q, capacity) == Len(q) < capacity

\* a pool that starts a forwarder for every operation on a session
ForwardersStartedAlways(op) == 1

\* forwarder tasks spawned by an operation on a session: Pool::start_dispatcher
\* spawns one when add_connection connects a new session; reuse of a session
\* and PgEventDispatcher::respawn spawn none
ForwardersStarted(op) == IF op = "connect" THEN 1 ELSE 0

\* a startup that goes on after an error of add_connection
AfterConnectErrorRuns == "running"

\* EventDispatch::connect after add_connection returned an error: the `?`
\* returns it, start_event_dispatcher and main return it in turn
AfterConnectError == "failed"

\* a polling task that stays in its loop whatever it polls
PollerNeverEnds(polled) == "running"

\* the polling task after one turn of its loop: an error of the stream and a
\* failed send to the forwarder break the loop (the task ends and drops the
\* connection); the end of the stream (None) is logged and the loop goes on
PollerAfter(polled) ==
    IF polled \in {"error", "send_failed"} THEN "terminated" ELSE "running"

\* PgEventDispatcher::is_closed (client.is_closed()): the connection object
\* lives in the polling task and is gone when the task has ended
IsClosed(poller) == poller = "terminated"

\* mpsc queues
QueuePush(q, x) == Append(q, x)
QueueFront(q) == Head(q)
QueuePop(q) == Tail(q)

----------------------------------------------------------------------------
InitCalls(configurations, calls) ==
    /\ settings \in configurations
    /\ boot = [i |-> 1, status |-> "connecting", error |-> FALSE]
    /\ pool = <<>>
    /\ fwd = <<>>
    /\ sq = <<>>
    /\ channels = <<>>
    /\ boundTo = <<>>
    /\ dq = <<>>
    /\ nread = <<>>
    /\ outEvent = NoEvent
    /\ nextId = 1
    /\ dlog = NoDispatch
    /\ bus = [value |-> DefaultEvent, version |-> 0]
    /\ receivers = TRUE
    /\ sendErrors = 0
    /\ sweep = NoSweep
    /\ nlost = 0
    /\ nfwd = <<>>
    /\ nrecv = <<>>
    /\ strays = 0
    /\ call \in calls
    /\ rlock = {}
    /\ seen = [w \in Workers |-> 0]
    /\ wpc = [w \in Workers |-> "wait"]
    /\ wev = [w \in Workers |-> NoEvent]
    /\ sends = [w \in Workers |-> <<>>]
    /\ subs = [w \in Workers |-> <<>>]
    /\ pending = [w \in Workers |-> <<>>]
    /\ clients = [c \in Idents |-> NoClient]
    /\ buf = [c \in Idents |-> <<>>]
    /\ received = [c \in Idents |-> <<>>]
    /\ lastSub = NoSubscribe
    /\ lastCycle = [w \in Workers |-> NoCycle]
    /\ reaped = {}
    /\ lateSends = {}
    /\ bcastLog = [w \in Workers |-> <<>>]

InitWith(configurations) == InitCalls(configurations, {NoCall})

(***************************************************************************)
(* EventDispatch::connect, one iteration of its loop: Pool::add_connection *)
(* for the next configured channel (reusing a session or connecting a new  *)
(* one through start_dispatcher, then LISTEN for each allowed event), and  *)
(* the push of the Channel.  After the last channel the dispatcher runs.   *)
(***************************************************************************)
AddConnection ==
    /\ boot.status = "connecting"
    /\ boot.i <= Len(settings.channels)
    /\ LET conf == settings.channels[boot.i]
           pgconfig == conf.connection
           k == FindConnection(pool, pgconfig)
           last == boot.i = Len(settings.channels)
       IN  /\ IF k # 0
              THEN /\ pool' = [pool EXCEPT
                          ![k].events = ListenAll(@, conf.allowed_events),
                          ![k].listening = Listening(ListenAll(pool[k].events, conf.allowed_events))]
                   /\ channels' = Append(channels,
                          [id |-> conf.id, events |-> conf.allowed_events,
                           dispatch_id |-> pool[k].session_pid])
                   /\ boundTo' = Append(boundTo, k)
                   /\ nfwd' = [nfwd EXCEPT ![k] = @ + ForwardersStarted("reuse")]
                   /\ UNCHANGED <<fwd, sq, nread, nrecv>>
              ELSE \E pid \in NewPids(pool, pgconfig.host) :
                   /\ pool' = Append(pool,
                          [config |-> pgconfig, session_pid |-> pid,
                           events |-> ListenAll({}, conf.allowed_events),
                           listening |-> Listening(ListenAll({}, conf.allowed_events)),
                           closed |-> FALSE, held |-> {}, respawned |-> FALSE,
                           poller |-> "running", broken |-> FALSE])
                   /\ fwd' = Append(fwd, pid)
                   /\ nfwd' = Append(nfwd, ForwardersStarted("connect"))
                   /\ sq' = Append(sq, <<>>)
                   /\ nread' = Append(nread, 0)
                   /\ nrecv' = Append(nrecv, 0)
                   /\ channels' = Append(channels,
                          [id |-> conf.id, events |-> conf.allowed_events,
                           dispatch_id |-> pid])
                   /\ boundTo' = Append(boundTo, Len(pool) + 1)
           /\ boot' = [i |-> boot.i + 1, error |-> FALSE,
                       status |-> IF last THEN "running" ELSE "connecting"]
    /\ UNCHANGED <<settings, dq, outEvent, nextId, dlog, bus, lifeVars, rlock, workerVars>>

\* add_connection returns an error (load_config, connect or LISTEN fails):
\* connect propagates it and nothing is started
AddConnectionFails ==
    /\ boot.status = "connecting"
    /\ boot.i <= Len(settings.channels)
    /\ boot' = [boot EXCEPT !.status = AfterConnectError, !.error = TRUE]
    /\ UNCHANGED <<settings, pool, fwd, nfwd, sq, channels, boundTo, dq, nread, nrecv, outEvent,
                   nextId, dlog, bus, lifeVars, rlock, workerVars>>

\* the runs that record, in each notification, whether it was read from a
\* respawned connection
FollowsRespawns == call.op = "respawns"

(***************************************************************************)
(* Polling task of session k: a Notification for a channel the connection  *)
(* LISTENs to arrives and is sent to the forwarder (sender.send awaits     *)
(* room in the queue).                                                     *)
(***************************************************************************)
Poll(k, e, p) ==
    /\ boot.status # "failed"
    /\ k \in 1..Len(pool)
    /\ ~pool[k].closed
    /\ e \in pool[k].listening
    /\ nfwd[k] > 0
    /\ HasRoom(sq[k], SessionQueueSize)
    /\ TotalRead(nread) < MaxNotif
    /\ nread' = [nread EXCEPT ![k] = @ + 1]
    /\ sq' = [sq EXCEPT ![k] = QueuePush(@,
                  [channel |-> e, payload |-> p,
                   origin |-> [sess |-> k, seq |-> nread[k] + 1,
                               channel |-> e, payload |-> p,
                               respawned |-> FollowsRespawns /\ pool[k].respawned]])]
    /\ UNCHANGED <<settings, boot, pool, fwd, nfwd, channels, boundTo, dq, nrecv,
                   outEvent, nextId, dlog, bus, lifeVars, rlock, workerVars>>

\* a tag read from the session at each notification
DispatchIdOfSession(k) == pool[k].session_pid

\* the dispatch_id the forwarder task of session k captured when it was
\* spawned (let dispatch_id = dispatcher.session_pid())
DispatchId(k) == fwd[k]

\* Forwarder task of session k (Pool::start_dispatcher): tag and forward.
\* The field session_pid of the queued record is history: the session's
\* session_pid() at this moment
Forward(k) ==
    /\ boot.status \notin {"failed", "dropped"}
    /\ k \in 1..Len(pool)
    /\ nfwd[k] > 0
    /\ sq[k] # <<>>
    /\ HasRoom(dq, EventsBufferSize)
    /\ dq' = QueuePush(dq, [notification |-> QueueFront(sq[k]), dispatch_id |-> DispatchId(k),
                             session_pid |-> pool[k].session_pid])
    /\ sq' = [sq EXCEPT ![k] = QueuePop(@)]
    /\ UNCHANGED <<settings, boot, pool, fwd, nfwd, channels, boundTo, nread, nrecv, outEvent,
                   nextId, dlog, bus, lifeVars, rlock, workerVars>>

(***************************************************************************)
(* EventDispatch::dispatch, one iteration up to the call of f: receive,    *)
(* match, build the Event or log the notification as unprocessed.          *)
(***************************************************************************)
Unprocessed == IF dlog = NoDispatch THEN 0 ELSE dlog.unprocessed

Dispatch ==
    /\ boot.status = "running"
    /\ outEvent = NoEvent
    /\ dq # <<>>
    /\ LET dispatch == QueueFront(dq)
           event == dispatch.notification.channel
           cand == Candidates(channels, dispatch.dispatch_id, event, 1)
           built == IF cand # <<>>
                    THEN NewEvent(nextId, dispatch.notification, MakeChanIds(cand))
                    ELSE NoEvent
       IN  /\ dq' = QueuePop(dq)
           /\ nrecv' = [nrecv EXCEPT ![dispatch.notification.origin.sess] = @ + 1]
           /\ dlog' = [notification |-> dispatch.notification,
                       dispatch_id |-> dispatch.dispatch_id,
                       event |-> built,
                       unprocessed |-> Unprocessed + (IF cand # <<>> THEN 0 ELSE 1)]
           /\ outEvent' = built
           /\ nextId' = IF cand # <<>> THEN nextId + 1 ELSE nextId
    /\ UNCHANGED <<settings, boot, pool, fwd, nfwd, sq, channels, boundTo, nread, bus,
                   lifeVars, rlock, workerVars>>

\* a bus that keeps an unread value and drops the new one
BusStoreKeepUnread(ev) ==
    IF \E w \in Workers : seen[w] # bus.version
    THEN [value |-> bus.value, version |-> bus.version + 1]
    ELSE [value |-> ev, version |-> bus.version + 1]

\* watch::Sender::send: the value is replaced and the version incremented
BusStore(ev) == [value |-> ev, version |-> bus.version + 1]

(***************************************************************************)
(* f(event) = tx.send(event) on the watch channel: takes the write lock of *)
(* the shared value, so it waits while any watch::Ref is alive.            *)
(***************************************************************************)
Publish ==
    /\ outEvent # NoEvent
    /\ receivers
    /\ rlock = {}
    /\ bus' = BusStore(outEvent)
    /\ outEvent' = NoEvent
    /\ UNCHANGED <<settings, boot, pool, fwd, nfwd, sq, channels, boundTo, dq, nread, nrecv,
                   nextId, dlog, lifeVars, rlock, workerVars>>

Init == InitWith(AllSettings)

DispatchNext ==
    \/ AddConnection
    \/ AddConnectionFails
    \/ \E k \in 1..MaxChannels, e \in EventNames, p \in Payloads : Poll(k, e, p)
    \/ \E k \in 1..MaxChannels : Forward(k)
    \/ Dispatch
    \/ Publish

Next == DispatchNext

Spec == Init /\ [][Next]_vars

----------------------------------------------------------------------------
(***************************************************************************)
(* Properties of the dispatcher (checked under Spec).                      *)
(***************************************************************************)

Dispatched == dlog # NoDispatch
EventBuilt == Dispatched /\ dlog.event # NoEvent

\* C1: for every notification the dispatcher turns into an Event, and every
\* channel whose allowed_events is non-empty, the Event lists the channel's
\* index exactly when the channel's dispatch_id is the notification's and
\* the event name equals an entry of allowed_events; the indices are in
\* ascending order, without duplicates.
C1_MatchNonEmptyAllowed ==
    EventBuilt =>
        LET ids == EventChannels(dlog.event)
        IN  /\ \A i \in 1..Len(channels) :
                  channels[i].events # <<>> =>
                      ((i - 1) \in Range(ids)
                         <=> /\ channels[i].dispatch_id = dlog.dispatch_id
                             /\ dlog.notification.channel \in Range(channels[i].events))
            /\ \A j \in 1..(Len(ids) - 1) : ids[j] < ids[j + 1]
            /\ Range(ids) \subseteq 0..(Len(channels) - 1)

\* an Event lists one channel and leaves out another channel of the same
\* session whose non-empty allowed_events lacks the event name
C1_Witness ==
    /\ EventBuilt
    /\ Len(EventChannels(dlog.event)) = 1
    /\ \E i \in 1..Len(channels) :
          /\ channels[i].events # <<>>
          /\ channels[i].dispatch_id = dlog.dispatch_id
          /\ (i - 1) \notin Range(EventChannels(dlog.event))

\* C2: a channel with an empty allowed_events accepts every event of its
\* session: each notification tagged with the channel's dispatch_id yields
\* an Event that lists the channel.
C2_EmptyAllowedAcceptsAll ==
    Dispatched =>
        \A i \in 1..Len(channels) :
            (channels[i].events = <<>> /\ channels[i].dispatch_id = dlog.dispatch_id)
                => /\ dlog.event # NoEvent
                   /\ (i - 1) \in Range(EventChannels(dlog.event))

\* C3: an Event built from a notification of session s lists only channels
\* that add_connection bound to session s.
C3_NoCrossSessionLeak ==
    EventBuilt =>
        \A c \in Range(EventChannels(dlog.event)) :
            boundTo[c + 1] = dlog.notification.origin.sess

----------------------------------------------------------------------------
(***************************************************************************)
(* Worker side: Broadcaster and start_event_listener.                      *)
(***************************************************************************)

\* Broadcaster::new: allowed_subscriptions, id -> ChanId (a later duplicate
\* of an id replaces the earlier entry of the HashMap)
SubscriptionKnown(path) ==
    \E i \in 1..Len(settings.channels) : settings.channels[i].id = path

SubscriptionId(path) ==
    (CHOOSE i \in 1..Len(settings.channels) :
        /\ settings.channels[i].id = path
        /\ \A j \in (i + 1)..Len(settings.channels) : settings.channels[j].id # path) - 1

\* an error response that always answers 500
StatusCodeInternal(err) == 500

\* ResponseError::status_code
StatusCode(err) == IF err = "SubscriptionNotFound" THEN 404 ELSE 500

\* ResponseError::error_response: the status, a JSON content type, no body
ErrorResponse(err) == [status |-> StatusCode(err), body |-> ""]

\* the Sse responder of an accepted subscription
StreamResponse == [status |-> 200, body |-> "event-stream"]

\* Uuid::new_v4(): an ident no client has yet
FreshIdent == CHOOSE c \in Idents : clients[c].status = "none"

\* a frame with event and data exchanged
SseDataSwapped(ev) == [data |-> ev.event, id |-> ev.id, event |-> ev.payload, origin |-> ev.origin]

\* sse::Data::new(payload).id(id).event(event); origin is history
SseData(ev) == [data |-> ev.payload, id |-> ev.id, event |-> ev.event, origin |-> ev.origin]

\* an insert that pushes the client twice
InsertChannelTwice(sb, c, id) ==
    IF id \in DOMAIN sb
    THEN [sb EXCEPT ![id] = @ \o <<c, c>>]
    ELSE [k \in DOMAIN sb \cup {id} |-> IF k = id THEN <<c, c>> ELSE sb[k]]

\* match subs.get_mut(&chan.id) { Some(pool) => pool.push(chan), None => insert }
InsertChannel(sb, c, id) ==
    IF id \in DOMAIN sb
    THEN [sb EXCEPT ![id] = Append(@, c)]
    ELSE [k \in DOMAIN sb \cup {id} |-> IF k = id THEN <<c>> ELSE sb[k]]

\* Broadcaster::resolve_pending_subscriptions: the table after the drain
RECURSIVE DrainPending(_, _)
DrainPending(sb, pend) ==
    IF pend = <<>> THEN sb
    ELSE DrainPending(InsertChannel(sb, Head(pend), clients[Head(pend)].id), Tail(pend))

\* a resolve that reads the pending list without taking it
PendingKept(pend) == pend

\* what resolve_pending_subscriptions leaves in pending_subscriptions
\* (self.pending_subscriptions.replace(Vec::new()))
PendingAfterResolve(pend) == <<>>

\* targets taken from the bucket of the first listed channel only
TargetsOfFirst(sb, chs) ==
    IF chs = <<>> THEN <<>>
    ELSE IF Head(chs) \in DOMAIN sb THEN sb[Head(chs)] ELSE <<>>

\* event.channels().iter().filter_map(|channel| subs.get(channel)).flat_map(...)
RECURSIVE Targets(_, _)
Targets(sb, chs) ==
    IF chs = <<>> THEN <<>>
    ELSE (IF Head(chs) \in DOMAIN sb THEN sb[Head(chs)] ELSE <<>>) \o Targets(sb, Tail(chs))

\* retain with the test inverted: keeps the closed clients
RetainClosed(bucket, res) == SelectSeq(bucket, LAMBDA c : c \in res)

\* pool.retain(|chan| !res.contains(&chan.ident))
Retain(bucket, res) == SelectSeq(bucket, LAMBDA c : c \notin res)

\* the clean-up of broadcast_event
CleanUp(sb, ev, res) ==
    IF res = {} THEN sb
    ELSE [k \in DOMAIN sb |->
            IF k \in Range(EventChannels(ev)) THEN Retain(sb[k], res) ELSE sb[k]]

\* one poll of chan.sender.send(..): tokio mpsc send fails when the receiver
\* is dropped, completes when the channel has room, and waits otherwise
SendPoll(c, b) ==
    IF clients[c].status = "closed" THEN "failed"
    ELSE IF Len(b) < BufferSize THEN "ok"
    ELSE "waiting"

\* rx.borrow(): the value the worker's Ref points to
BusBorrow(w) == bus.value

\* self.subs.try_borrow_mut() fails while broadcast_event holds its Ref
SubsBorrowed(w) == wpc[w] = "sending"

InSubs(sb) == UNION { Range(sb[k]) : k \in DOMAIN sb }

\* a Ref on subs that lives to the end of broadcast_event
RefKept(refs) == refs

\* the block around join_all ends: the Ref it took on subs is dropped
RefDropped(refs) == refs - 1

\* RefCell::borrow_mut succeeds when no Ref is alive, and panics otherwise
BorrowMutOk(refs) == refs = 0

\* The end of Broadcaster::broadcast once every send has an outcome: the
\* clean-up, resolve_pending_subscriptions, and the drop of the watch::Ref
FinishCycle(w, ev, st) ==
    LET res == { c \in DOMAIN st : st[c] = "failed" }
        refs == RefDropped(1)
        reap == res = {} \/ BorrowMutOk(refs)
        drain == pending[w] = <<>> \/ BorrowMutOk(refs)
    IN  /\ subs' = [subs EXCEPT ![w] = DrainPending(CleanUp(subs[w], ev, res), pending[w])]
        /\ pending' = [pending EXCEPT ![w] = PendingAfterResolve(pending[w])]
        /\ lastCycle' = [lastCycle EXCEPT ![w] =
               [start |-> InSubs(subs[w]), ok |-> { c \in DOMAIN st : st[c] = "ok" },
                failed |-> res, drained |-> Range(pending[w]),
                panicked |-> ~(reap /\ drain)]]
        /\ reaped' = reaped \cup res
        /\ wpc' = [wpc EXCEPT ![w] = "wait"]
        /\ sends' = [sends EXCEPT ![w] = <<>>]
        /\ wev' = [wev EXCEPT ![w] = NoEvent]
        /\ rlock' = rlock \ {w}

\* rx.changed().await returns: the current version is marked seen
WorkerChanged(w) ==
    /\ boot.status = "running"
    /\ wpc[w] = "wait"
    /\ bus.version # seen[w]
    /\ seen' = [seen EXCEPT ![w] = bus.version]
    /\ wpc' = [wpc EXCEPT ![w] = "woken"]
    /\ UNCHANGED <<dispatchVars, rlock, wev, sends, subs, pending, clients, buf,
                   received, lastSub, lastCycle, reaped, lateSends, bcastLog>>

(***************************************************************************)
(* let ev = rx.borrow(); bc.broadcast(&ev) up to its first suspension: the *)
(* Ref on the bus value and the Ref on subs are taken and every send is    *)
(* polled once.  When no send waits the cycle ends in the same step.       *)
(***************************************************************************)
WorkerBroadcast(w) ==
    /\ wpc[w] = "woken"
    /\ LET ev == BusBorrow(w)
           tset == Range(Targets(subs[w], EventChannels(ev)))
           st == [c \in tset |-> SendPoll(c, buf[c])]
       IN  /\ bcastLog' = [bcastLog EXCEPT ![w] =
                              Append(@, [ev |-> ev.id, latest |-> bus.version])]
           /\ lateSends' = lateSends \cup (tset \cap reaped)
           /\ buf' = [c \in Idents |->
                        IF c \in tset /\ st[c] = "ok" THEN Append(buf[c], SseData(ev))
                        ELSE buf[c]]
           /\ IF \E c \in tset : st[c] = "waiting"
              THEN /\ wpc' = [wpc EXCEPT ![w] = "sending"]
                   /\ sends' = [sends EXCEPT ![w] = st]
                   /\ wev' = [wev EXCEPT ![w] = ev]
                   /\ rlock' = rlock \cup {w}
                   /\ UNCHANGED <<subs, pending, lastCycle, reaped>>
              ELSE FinishCycle(w, ev, st)
    /\ UNCHANGED <<dispatchVars, seen, clients, received, lastSub>>

\* a waiting send of the join_all is woken: its channel got room, or its
\* receiver was dropped
SendWake(w, c) ==
    /\ wpc[w] = "sending"
    /\ c \in DOMAIN sends[w]
    /\ sends[w][c] = "waiting"
    /\ SendPoll(c, buf[c]) # "waiting"
    /\ LET st == [sends[w] EXCEPT ![c] = SendPoll(c, buf[c])]
       IN  /\ buf' = IF st[c] = "ok" THEN [buf EXCEPT ![c] = Append(@, SseData(wev[w]))]
                     ELSE buf
           /\ IF \E d \in DOMAIN st : st[d] = "waiting"
              THEN /\ sends' = [sends EXCEPT ![w] = st]
                   /\ UNCHANGED <<wpc, wev, rlock, subs, pending, lastCycle, reaped>>
              ELSE FinishCycle(w, wev[w], st)
    /\ UNCHANGED <<dispatchVars, seen, clients, received, lastSub, lateSends, bcastLog>>

(***************************************************************************)
(* Broadcaster::do_subscribe and new_channel for GET /events/subscribe/id  *)
(* on worker w.  A handler runs on the worker's thread, so not inside the  *)
(* synchronous part of the listener task.                                  *)
(***************************************************************************)
Subscribe(w, path, hdr) ==
    /\ boot.status = "running"
    /\ wpc[w] # "woken"
    /\ \E c \in Idents : clients[c].status = "none"
    /\ IF ~SubscriptionKnown(path)
       THEN /\ lastSub' = [path |-> path, result |-> "notfound", client |-> "",
                            response |-> ErrorResponse("SubscriptionNotFound")]
            /\ UNCHANGED <<clients, subs, pending>>
       ELSE IF hdr = "opaque"
       THEN \* s.to_str().unwrap() panics
            /\ lastSub' = [path |-> path, result |-> "panic", client |-> "",
                            response |-> NoResponse]
            /\ UNCHANGED <<clients, subs, pending>>
       ELSE LET c == FreshIdent
                id == SubscriptionId(path)
            IN  /\ clients' = [clients EXCEPT ![c] =
                       [status |-> "open", id |-> id, path |-> path, worker |-> w]]
                /\ IF ~SubsBorrowed(w)
                   THEN /\ subs' = [subs EXCEPT ![w] = InsertChannel(@, c, id)]
                        /\ UNCHANGED pending
                   ELSE /\ pending' = [pending EXCEPT ![w] = Append(@, c)]
                        /\ UNCHANGED subs
                /\ lastSub' = [path |-> path, result |-> "ok", client |-> c,
                                response |-> StreamResponse]
    /\ UNCHANGED <<dispatchVars, rlock, seen, wpc, wev, sends, buf, received,
                   lastCycle, reaped, lateSends, bcastLog>>

\* the HTTP response stream of client c takes the next frame
ClientRead(c) ==
    /\ clients[c].status = "open"
    /\ wpc[clients[c].worker] # "woken"
    /\ buf[c] # <<>>
    /\ received' = [received EXCEPT ![c] = Append(@, Head(buf[c]))]
    /\ buf' = [buf EXCEPT ![c] = Tail(@)]
    /\ UNCHANGED <<dispatchVars, rlock, seen, wpc, wev, sends, subs, pending, clients,
                   lastSub, lastCycle, reaped, lateSends, bcastLog>>

\* the HTTP connection of client c closes: the receiver is dropped
ClientClose(c) ==
    /\ clients[c].status = "open"
    /\ wpc[clients[c].worker] # "woken"
    /\ clients' = [clients EXCEPT ![c].status = "closed"]
    /\ buf' = [buf EXCEPT ![c] = <<>>]
    /\ UNCHANGED <<dispatchVars, rlock, seen, wpc, wev, sends, subs, pending, received,
                   lastSub, lastCycle, reaped, lateSends, bcastLog>>

WorkerNext ==
    \/ \E w \in Workers : WorkerChanged(w)
    \/ \E w \in Workers : WorkerBroadcast(w)
    \/ \E w \in Workers, c \in Idents : SendWake(w, c)
    \/ \E w \in Workers, path \in SubscribePaths, hdr \in IdentityHeaders :
          Subscribe(w, path, hdr)
    \/ \E c \in Idents : ClientRead(c)
    \/ \E c \in Idents : ClientClose(c)

\* the configuration of the pipeline runs: two channels sharing one session
PipelineSettings ==
    { [channels |->
        << [id |-> "orders", allowed_events |-> <<"a">>,
            connection |-> [host |-> "db1", dbname |-> "shop", user |-> "app", opt |-> "x"]],
           [id |-> "stock", allowed_events |-> <<"a", "b">>,
            connection |-> [host |-> "db1", dbname |-> "shop", user |-> "app", opt |-> "y"]] >>] }

InitPipeline == InitWith(PipelineSettings)

PipelineNext == DispatchNext \/ WorkerNext

SpecPipeline == InitPipeline /\ [][PipelineNext]_vars

----------------------------------------------------------------------------
(***************************************************************************)
(* Properties of the pipeline (checked under SpecPipeline).                *)
(***************************************************************************)

C5_SlowClientNeverStalls ==
    \A w \in Workers : \A c \in DOMAIN sends[w] : sends[w][c] # "waiting"

\* C6: whenever the dispatcher has an Event to publish, the publish can go
\* ahead, also while a worker is in the middle of a broadcast cycle.
C6_PublishNeverBlocks ==
    outEvent # NoEvent => ENABLED Publish

\* C7: the frames a client takes that stem from one listener session are in
\* the order in which the session's notifications were read from Postgres.
C7_FramesInOrder ==
    \A c \in Idents :
        \A i \in 1..Len(received[c]) : \A j \in 1..Len(received[c]) :
            (i < j /\ received[c][i].origin.sess = received[c][j].origin.sess)
                => received[c][i].origin.seq <= received[c][j].origin.seq

\* a client took the frames of two notifications of one session
C7_Witness ==
    \E c \in Idents :
        /\ Len(received[c]) >= 2
        /\ received[c][1].origin.sess = received[c][2].origin.sess
        /\ received[c][1].origin.seq < received[c][2].origin.seq

\* C8: each wake-up of a worker broadcasts the Event published last (event
\* ids count the publications), and never an Event older than one the
\* worker has broadcast: a skipped Event is not broadcast afterwards.
C8_LatestValueOnly ==
    \A w \in Workers :
        \A i \in 1..Len(bcastLog[w]) :
            /\ bcastLog[w][i].ev = bcastLog[w][i].latest
            /\ i > 1 => bcastLog[w][i - 1].ev <= bcastLog[w][i].ev

\* a worker's wake-up skipped at least one published Event
C8_Witness ==
    \E w \in Workers : \E i \in 1..Len(bcastLog[w]) :
        bcastLog[w][i].ev > (IF i = 1 THEN 0 ELSE bcastLog[w][i - 1].ev) + 1

\* C9: a subscribe request for an allowed id is always accepted, without
\* error or panic, and registers one client with the configured chan_id.
C9_SubscribeAlwaysAccepted ==
    SubscriptionKnown(lastSub.path) =>
        /\ lastSub.result = "ok"
        /\ clients[lastSub.client].status # "none"
        /\ clients[lastSub.client].id = SubscriptionId(lastSub.path)

\* C10: pending is empty whenever no broadcast cycle is in progress, and the
\* clients a cycle drained from pending are in subs under their chan_id.
C10_PendingDrained ==
    \A w \in Workers :
        /\ wpc[w] # "sending" => pending[w] = <<>>
        /\ \A c \in lastCycle[w].drained :
              /\ clients[c].id \in DOMAIN subs[w]
              /\ c \in Range(subs[w][clients[c].id])

\* a cycle ended with a client in pending
C10_Witness ==
    \E w \in Workers : lastCycle[w].drained # {}

\* every client registered on worker w: the buckets of subs, then pending
Registered(w) ==
    Targets(subs[w], [i \in 1..Len(settings.channels) |-> i - 1]) \o pending[w]

\* C11: no client appears more than once across all buckets of subs and the
\* pending list of a worker.
C11_NoClientTwice ==
    \A w \in Workers :
        \A i \in 1..Len(Registered(w)) : \A j \in 1..Len(Registered(w)) :
            i # j => Registered(w)[i] # Registered(w)[j]

\* two clients are registered, one of them through the pending list
C11_Witness ==
    \E w \in Workers :
        /\ lastCycle[w].drained # {}
        /\ Len(Registered(w)) = 2
        /\ lastCycle[w].drained \subseteq InSubs(subs[w])

\* C12: a subscribe request for an id that is no key of allowed_subscriptions
\* is answered 404 with an empty body, creates no client and leaves subs and
\* pending unchanged.
C12_UnknownIdNotFound ==
    [][\A w \in Workers, path \in SubscribePaths, hdr \in IdentityHeaders :
          (Subscribe(w, path, hdr) /\ ~SubscriptionKnown(path))
              => /\ lastSub'.response = [status |-> 404, body |-> ""]
                 /\ lastSub'.client = ""
                 /\ UNCHANGED <<clients, subs, pending, buf>>]_vars

\* an unknown id was refused while a client was registered
C12_Witness ==
    /\ lastSub.result = "notfound"
    /\ ~SubscriptionKnown(lastSub.path)
    /\ \E w \in Workers : Len(Registered(w)) > 0

\* the frames queued for or taken by the clients
Frames == UNION { Range(buf[c]) \cup Range(received[c]) : c \in Idents }

\* C13: every frame carries the channel name and the payload of the
\* notification it stems from as its event and data, and the id of the Event
\* built from that notification.
C13_FrameRoundTrip ==
    \A f \in Frames :
        /\ f.event = f.origin.channel
        /\ f.data = f.origin.payload
        /\ f.id = bus.value.id => f.origin = bus.value.origin
        /\ (EventBuilt /\ f.id = dlog.event.id) => f.origin = dlog.notification.origin
        /\ \A g \in Frames : f.id = g.id => f.origin = g.origin

\* a client took the frame of a notification for event b
C13_Witness ==
    \E c \in Idents : \E i \in 1..Len(received[c]) :
        /\ received[c][i].event = "b"
        /\ received[c][i].data \in Payloads
        /\ received[c][i].id > 0

----------------------------------------------------------------------------
(***************************************************************************)
(* Further properties of the dispatcher (checked under Spec).              *)
(***************************************************************************)

\* C14: channels whose descriptors agree on (hosts, dbname, user) are bound
\* to one session and get the same session_pid, and no two sessions of the
\* pool have the same (hosts, dbname, user).
C14_OneSessionPerDescriptor ==
    /\ \A j \in 1..Len(pool) : \A k \in 1..Len(pool) :
          j # k => ~SameTriple(pool[j].config, pool[k].config)
    /\ \A i \in 1..Len(channels) : \A j \in 1..Len(channels) :
          SameTriple(settings.channels[i].connection, settings.channels[j].connection)
              => /\ boundTo[i] = boundTo[j]
                 /\ channels[i].dispatch_id = channels[j].dispatch_id

\* two channels with different descriptors share the only session
C14_Witness ==
    /\ Len(channels) = 2
    /\ Len(pool) = 1
    /\ settings.channels[1].connection # settings.channels[2].connection

\* C19: an Event is built exactly when some channel matches the notification,
\* every Event built is handed to the publisher and nothing else is, every
\* Event handed over or published lists at least one channel, and after an
\* unprocessed notification the loop can take the next one.
C19_PublishIffMatch ==
    /\ Dispatched =>
          (dlog.event # NoEvent
             <=> \E i \in 1..Len(channels) :
                    /\ channels[i].dispatch_id = dlog.dispatch_id
                    /\ dlog.notification.channel \in Range(channels[i].events))
    /\ outEvent # NoEvent => EventChannels(outEvent) # <<>>
    /\ bus.version > 0 => EventChannels(bus.value) # <<>>
    /\ bus.version + (IF outEvent # NoEvent THEN 1 ELSE 0) = nextId - 1
    /\ (Dispatched /\ dlog.event = NoEvent) => outEvent = NoEvent
    /\ (Dispatched /\ dlog.event = NoEvent /\ dq # <<>>) => ENABLED Dispatch

\* an Event was built after a notification had been logged as unprocessed
C19_Witness ==
    /\ EventBuilt
    /\ dlog.unprocessed > 0
    /\ bus.version > 0

----------------------------------------------------------------------------
(***************************************************************************)
(* Loss of a connection, Pool::reconnect, and the end of the receivers.    *)
(***************************************************************************)

\* every session of the pool
AllSessions(p) == 1..Len(p)

\* the sessions a sweep respawns: if dispatcher.is_closed() { respawn }
ClosedSessions(p) == { k \in 1..Len(p) : p[k].closed }

\* a dispatch loop that ends on a send error
AfterSendErrorStops == "stopped"

\* state of the dispatch loop after tx.send returned Err: the closure logs
\* the error and returns
AfterSendError == "running"

\* the session after its polling task polled an error or failed to send:
\* the backend and its LISTEN registrations are gone.  broken (history)
\* records the failure, held (history) keeps the listened set
Failed(session, polled) ==
    [session EXCEPT !.poller = PollerAfter(polled),
                    !.closed = IsClosed(PollerAfter(polled)),
                    !.broken = TRUE, !.listening = {},
                    !.held = session.events, !.respawned = FALSE]

\* the connection of session k ends (error on the socket): the stream of
\* the polling task yields Err
SessionLost(k) ==
    /\ boot.status = "running"
    /\ k \in 1..Len(pool)
    /\ ~pool[k].broken
    /\ nlost < MaxLost
    /\ nlost' = nlost + 1
    /\ pool' = [pool EXCEPT ![k] = Failed(@, "error")]
    /\ UNCHANGED <<settings, boot, fwd, nfwd, sq, channels, boundTo, dq, nread, nrecv, outEvent,
                   nextId, dlog, bus, receivers, sendErrors, sweep, strays, call, rlock, workerVars>>

\* Pool::reconnect is called by the pool handler: return at once when no
\* session is closed, else start the join_all over the closed sessions
ReconnectStart ==
    /\ boot.status \in {"running", "dropped"}
    /\ sweep.phase = "idle"
    /\ IF \E k \in 1..Len(pool) : pool[k].closed
       THEN sweep' = [phase |-> "sweeping", todo |-> ClosedSessions(pool),
                      start |-> [k \in ClosedSessions(pool) |->
                                   [config |-> pool[k].config, events |-> pool[k].events]],
                      after |-> <<>>, errors |-> {}]
       ELSE UNCHANGED sweep
    /\ UNCHANGED <<settings, boot, pool, fwd, nfwd, sq, channels, boundTo, dq, nread, nrecv,
                   outEvent, nextId, dlog, bus, receivers, sendErrors, nlost, strays, call, rlock,
                   workerVars>>

\* outcomes of PgEventDispatcher::respawn
RespawnOutcomes == {"connect_failed", "pid_failed", "ok", "listen_failed"}

\* PgEventDispatcher::respawn of session k, within a sweep.  events is
\* drained first; connect may fail before the polling task is spawned
\* (connect_failed) or after it, in get_session_pid (pid_failed: the new
\* connection is lost, the new client is dropped and the stream of the new
\* polling task ends), leaving the old closed client; else *self is the new session, batch_listen records
\* the events and sends the LISTENs, which may fail with the connection open
\* or lost.  An error is logged by reconnect.
Respawn(k, outcome, lostAgain) ==
    /\ sweep.phase = "sweeping"
    /\ k \in sweep.todo
    /\ LET events == pool[k].events
           failed == outcome # "ok"
           done == sweep.todo = {k}
           poller == IF lostAgain THEN PollerAfter("error") ELSE "running"
       IN  /\ outcome = "listen_failed" => events # {}
           /\ lostAgain => outcome = "listen_failed"
           /\ outcome = "pid_failed" => nlost < MaxLost
           /\ nlost' = IF outcome = "pid_failed" THEN nlost + 1 ELSE nlost
           /\ strays' = IF outcome = "pid_failed" /\ PollerAfter("none") = "running"
                        THEN strays + 1 ELSE strays
           /\ nfwd' = IF outcome \in {"connect_failed", "pid_failed"} THEN nfwd
                      ELSE [nfwd EXCEPT ![k] = @ + ForwardersStarted("respawn")]
           /\ IF outcome \in {"connect_failed", "pid_failed"}
              THEN pool' = [pool EXCEPT ![k].events = {}]
              ELSE \E pid \in NewPids(pool, pool[k].config.host) :
                      pool' = [pool EXCEPT ![k] =
                          [config |-> pool[k].config, session_pid |-> pid,
                           events |-> events,
                           listening |-> IF failed THEN {} ELSE Listening(events),
                           closed |-> IsClosed(poller), held |-> pool[k].held,
                           respawned |-> ~failed,
                           poller |-> poller, broken |-> lostAgain]]
           /\ sweep' = [sweep EXCEPT
                  !.todo = @ \ {k},
                  !.phase = IF done THEN "idle" ELSE "sweeping",
                  !.after = [j \in DOMAIN sweep.after \cup {k} |->
                                IF j = k THEN pool'[k] ELSE sweep.after[j]],
                  !.errors = IF failed THEN @ \cup {k} ELSE @]
    /\ UNCHANGED <<settings, boot, fwd, sq, channels, boundTo, dq, nread, nrecv, outEvent,
                   nextId, dlog, bus, receivers, sendErrors, call, rlock, workerVars>>

\* a polling task whose stream has ended polls it again and gets an error:
\* it leaves its loop
StrayEnds ==
    /\ strays > 0
    /\ strays' = strays - 1
    /\ UNCHANGED <<settings, boot, pool, fwd, nfwd, sq, channels, boundTo, dq, nread,
                   nrecv, outEvent, nextId, dlog, bus, receivers, sendErrors, sweep,
                   nlost, call, rlock, workerVars>>

\* the dispatch task is dropped with its receiver; what the queue and the
\* task held is discarded
DispatcherDropped ==
    /\ boot.status = "running"
    /\ boot' = [boot EXCEPT !.status = "dropped"]
    /\ dq' = <<>>
    /\ outEvent' = NoEvent
    /\ UNCHANGED <<settings, pool, fwd, nfwd, sq, channels, boundTo, nread, nrecv,
                   nextId, dlog, bus, lifeVars, rlock, workerVars>>

\* forwarder task of session k when the dispatcher's receiver is gone:
\* tx_fwd.send returns Err, the task logs it and ends, dropping its receiver
ForwardFails(k) ==
    /\ boot.status = "dropped"
    /\ k \in 1..Len(pool)
    /\ nfwd[k] > 0
    /\ sq[k] # <<>>
    /\ nfwd' = [nfwd EXCEPT ![k] = @ - 1]
    /\ sq' = [sq EXCEPT ![k] = <<>>]
    /\ UNCHANGED <<settings, boot, pool, fwd, channels, boundTo, dq, nread, nrecv,
                   outEvent, nextId, dlog, bus, lifeVars, rlock, workerVars>>

\* polling task of session k when its forwarder is gone: sender.send
\* returns Err
PollSendFails(k, e) ==
    /\ k \in 1..Len(pool)
    /\ ~pool[k].closed
    /\ e \in pool[k].listening
    /\ nfwd[k] = 0
    /\ TotalRead(nread) < MaxNotif
    /\ nlost < MaxLost
    /\ nread' = [nread EXCEPT ![k] = @ + 1]
    /\ nlost' = nlost + 1
    /\ pool' = [pool EXCEPT ![k] = Failed(@, "send_failed")]
    /\ UNCHANGED <<settings, boot, fwd, nfwd, sq, channels, boundTo, dq, nrecv,
                   outEvent, nextId, dlog, bus, receivers, sendErrors, sweep, strays,
                   call, rlock, workerVars>>

\* the server stops: the workers and the factory closure drop their
\* watch::Receiver
ServerStop ==
    /\ boot.status = "running"
    /\ receivers
    /\ receivers' = FALSE
    /\ UNCHANGED <<settings, boot, pool, fwd, nfwd, sq, channels, boundTo, dq, nread, nrecv,
                   outEvent, nextId, dlog, bus, sendErrors, sweep, nlost, strays, call, rlock,
                   workerVars>>

\* f(event) when no receiver is left: tx.send returns Err, the value is not
\* stored, the error is logged
PublishFails ==
    /\ outEvent # NoEvent
    /\ ~receivers
    /\ outEvent' = NoEvent
    /\ sendErrors' = sendErrors + 1
    /\ boot' = [boot EXCEPT !.status = AfterSendError]
    /\ UNCHANGED <<settings, pool, fwd, nfwd, sq, channels, boundTo, dq, nread, nrecv, nextId,
                   dlog, bus, receivers, sweep, nlost, strays, call, rlock, workerVars>>

ReconnectNext ==
    \/ \E k \in 1..MaxChannels : SessionLost(k)
    \/ ReconnectStart
    \/ \E k \in 1..MaxChannels, outcome \in RespawnOutcomes, lostAgain \in BOOLEAN :
          Respawn(k, outcome, lostAgain)
    \/ StrayEnds

TeardownNext ==
    \/ DispatcherDropped
    \/ \E k \in 1..MaxChannels : ForwardFails(k)
    \/ \E k \in 1..MaxChannels, e \in EventNames : PollSendFails(k, e)

ShutdownNext ==
    \/ ServerStop
    \/ PublishFails

\* the configuration of the reconnect runs: three channels on two servers,
\* so two sessions, the first one used by two channels; only the first
\* session LISTENs
ReconnectSettings ==
    { [channels |->
        << [id |-> "orders", allowed_events |-> <<"a">>,
            connection |-> [host |-> "db1", dbname |-> "shop", user |-> "app", opt |-> "x"]],
           [id |-> "stock", allowed_events |-> <<>>,
            connection |-> [host |-> "db2", dbname |-> "shop", user |-> "app", opt |-> "x"]],
           [id |-> "audit", allowed_events |-> <<"a">>,
            connection |-> [host |-> "db1", dbname |-> "shop", user |-> "app", opt |-> "y"]] >>] }

InitReconnect == InitWith(ReconnectSettings)

DispatchReconnectNext == DispatchNext \/ ReconnectNext \/ TeardownNext

SpecReconnect == InitReconnect /\ [][DispatchReconnectNext]_vars

DispatchShutdownNext == DispatchNext \/ ShutdownNext

SpecShutdown == InitPipeline /\ [][DispatchShutdownNext]_vars

----------------------------------------------------------------------------
(***************************************************************************)
(* Properties of reconnection (checked under SpecReconnect) and of the     *)
(* publish without receivers (checked under SpecShutdown).                 *)
(***************************************************************************)

\* C15: each session that was closed at the start of a sweep is, when its
\* respawn returns, either open with the same descriptor and a LISTEN in
\* force for every event it had recorded, or still closed with an error
\* logged.
C15_RespawnedOrStillClosed ==
    \A k \in DOMAIN sweep.after :
        LET a == sweep.after[k]
            b == sweep.start[k]
        IN  \/ /\ ~a.closed
               /\ a.config = b.config
               /\ a.events = b.events
               /\ a.listening = Listening(b.events)
            \/ /\ a.closed
               /\ k \in sweep.errors

\* C16: once a respawn has succeeded, the session's listened set is the set
\* it held when its connection was lost.
C16_RespawnKeepsListenSet ==
    \A k \in 1..Len(pool) :
        (pool[k].respawned /\ ~pool[k].closed) => pool[k].events = pool[k].held

\* the sessions that were closed when the latest sweep started
SweptSessions == DOMAIN sweep.start

\* a step of Pool::reconnect
ReconnectStep ==
    \/ ReconnectStart
    \/ \E k \in 1..MaxChannels, outcome \in RespawnOutcomes, lostAgain \in BOOLEAN :
          Respawn(k, outcome, lostAgain)

\* C17: a step of reconnect changes nothing when no session is closed, and
\* otherwise leaves every open session as it is and keeps the number, the
\* order and the descriptors of the pool entries; nothing but the pool is
\* touched.
C17_ReconnectFrame ==
    [][ReconnectStep =>
          /\ Len(pool') = Len(pool)
          /\ \A k \in 1..Len(pool) :
                /\ pool'[k].config = pool[k].config
                /\ ~pool[k].closed => pool'[k] = pool[k]
          /\ (\A k \in 1..Len(pool) : ~pool[k].closed) => pool' = pool
          /\ UNCHANGED <<fwd, nfwd, sq, channels, boundTo, dq>>]_vars

\* a sweep respawned one session while the other one stayed open
C17_Witness ==
    /\ sweep.phase = "idle"
    /\ Len(pool) = 2
    /\ \E k \in SweptSessions : k \in DOMAIN sweep.after /\ ~sweep.after[k].closed
    /\ \E j \in 1..Len(pool) : j \notin SweptSessions /\ ~pool[j].closed

\* C18: every tagged notification in the dispatcher's queue carries the
\* session_pid its session had when the forwarder tagged it.
C18_TagIsSessionPid ==
    \A i \in 1..Len(dq) : dq[i].dispatch_id = dq[i].session_pid

\* C20: a publish that fails for want of a receiver does not end the
\* dispatch loop: the loop is still running, takes the next notification,
\* and an Event built later is handed to the publisher again.
C20_SendErrorOnlyLogged ==
    sendErrors > 0 =>
        /\ boot.status = "running"
        /\ (outEvent = NoEvent /\ dq # <<>>) => ENABLED Dispatch
        /\ outEvent # NoEvent => (ENABLED Publish \/ ENABLED PublishFails)

\* after a failed publish a later notification was matched and its publish
\* attempted
C20_Witness ==
    /\ sendErrors >= 2
    /\ EventBuilt
    /\ boot.status = "running"


----------------------------------------------------------------------------
(***************************************************************************)
(* Properties of the tasks of a session (checked under SpecReconnect).     *)
(***************************************************************************)

\* C21: a polling task that polled a protocol error, or whose send to the
\* forwarder failed, has ended; from then on is_closed() is true for its
\* session, only a respawn within a sweep opens the session again, and a
\* sweep that starts takes every closed session.
C21_PollerEndsThenClosed ==
    [][\A k \in 1..Len(pool) :
          /\ pool'[k].broken => (pool'[k].poller = "terminated" /\ pool'[k].closed)
          /\ (pool[k].closed /\ ~pool'[k].closed) => k \in sweep.todo
          /\ (sweep.phase = "idle" /\ sweep'.phase = "sweeping" /\ pool[k].closed)
                => k \in sweep'.todo]_vars

\* a session whose polling task ended on a failed send (its forwarder is
\* gone) is about to be respawned by a sweep
C21_Witness ==
    \E k \in 1..Len(pool) :
        /\ pool[k].broken
        /\ pool[k].poller = "terminated"
        /\ nfwd[k] = 0
        /\ sweep.phase = "sweeping"
        /\ k \in sweep.todo

\* C22: no polling task is still in its loop after its client was dropped
\* and its message stream ended.
C22_NoPollerOutlivesItsStream == strays = 0


\* ranks (in their session) of the notifications of session k on their way
\* to the dispatcher: those in the dispatcher's queue, then those in the
\* session's queue
InFlight(k) ==
    LET queued == SelectSeq(dq, LAMBDA d : d.notification.origin.sess = k)
    IN  [i \in 1..Len(queued) |-> queued[i].notification.origin.seq]
        \o [i \in 1..Len(sq[k]) |-> sq[k][i].origin.seq]

\* C23: the dispatcher's queue never holds more than events_buffer_size
\* notifications, and while the dispatcher is receiving none is dropped or
\* overtaken: what a session has read and the dispatcher has not yet taken
\* is in flight, once, in the order it was read.
C23_BoundedQueueNothingLost ==
    /\ Len(dq) <= EventsBufferSize
    /\ boot.status # "dropped" =>
          \A k \in 1..Len(pool) :
              InFlight(k) = [i \in 1..(nread[k] - nrecv[k]) |-> nrecv[k] + i]

\* the dispatcher's queue is full and a forwarder waits with the next
\* notification of its session
C23_Witness ==
    /\ Len(dq) = EventsBufferSize
    /\ \E k \in 1..Len(pool) : sq[k] # <<>> /\ nread[k] > EventsBufferSize


\* C24: each session of the pool has exactly one forwarder task, whether
\* the session was connected, used again by another channel or respawned,
\* as long as the dispatcher is receiving.
C24_OneForwarderPerSession ==
    /\ Len(nfwd) = Len(pool)
    /\ boot.status # "dropped" => \A k \in 1..Len(pool) : nfwd[k] = 1

\* a session used by two channels has been respawned
C24_Witness ==
    \E k \in 1..Len(pool) :
        /\ pool[k].respawned
        /\ ~pool[k].closed
        /\ \E i, j \in 1..Len(boundTo) : i # j /\ boundTo[i] = k /\ boundTo[j] = k


----------------------------------------------------------------------------
(***************************************************************************)
(* PgEventDispatcher::listen and unlisten on one session.  call holds the  *)
(* session's events set before and after the latest call, its argument,    *)
(* whether the LISTEN / UNLISTEN statement was executed, and the result.   *)
(***************************************************************************)

\* channel names given to listen and unlisten
ListenNames == {"a", "b", "A", "B"}

\* a listen that records the name before the statement is executed
ListenRecordsFirst(events, e, executed) ==
    [events |-> events \cup {e},
     result |-> IF ~executed THEN "error" ELSE IF e \notin events THEN "true" ELSE "false"]

\* listen: batch_execute("LISTEN e;"), then on Ok events.insert(e), whose
\* bool is the result; on Err the error, mapped
Listen(events, e, executed) ==
    IF executed
    THEN [events |-> events \cup {e},
          result |-> IF e \notin events THEN "true" ELSE "false"]
    ELSE [events |-> events, result |-> "error"]

\* unlisten: batch_execute("UNLISTEN e;"), then on Ok events.remove(e)
Unlisten(events, e, executed) ==
    IF executed
    THEN [events |-> events \ {e},
          result |-> IF e \in events THEN "true" ELSE "false"]
    ELSE [events |-> events, result |-> "error"]

ListenCall(e, executed) ==
    /\ call.op \in {"session", "listen", "unlisten"}
    /\ call' = [op |-> "listen", before |-> call.events, e |-> e,
                executed |-> executed,
                events |-> Listen(call.events, e, executed).events,
                result |-> Listen(call.events, e, executed).result]
    /\ UNCHANGED <<settings, boot, pool, fwd, nfwd, sq, channels, boundTo, dq, nread,
                   nrecv, outEvent, nextId, dlog, bus, receivers, sendErrors, sweep,
                   nlost, strays, rlock, workerVars>>

UnlistenCall(e, executed) ==
    /\ call.op \in {"session", "listen", "unlisten"}
    /\ call' = [op |-> "unlisten", before |-> call.events, e |-> e,
                executed |-> executed,
                events |-> Unlisten(call.events, e, executed).events,
                result |-> Unlisten(call.events, e, executed).result]
    /\ UNCHANGED <<settings, boot, pool, fwd, nfwd, sq, channels, boundTo, dq, nread,
                   nrecv, outEvent, nextId, dlog, bus, receivers, sendErrors, sweep,
                   nlost, strays, rlock, workerVars>>

\* a session as PgEventDispatcher::connect returns it: events is empty
InitListen == InitCalls(PipelineSettings, {[op |-> "session", events |-> {}]})

ListenNext ==
    \/ \E e \in ListenNames, executed \in BOOLEAN : ListenCall(e, executed)
    \/ \E e \in ListenNames, executed \in BOOLEAN : UnlistenCall(e, executed)

SpecListen == InitListen /\ [][ListenNext]_vars

\* C25: a listen that succeeds adds the name and returns true exactly when
\* the name was not in the set; an unlisten that succeeds removes it and
\* returns true exactly when it was in the set; a call that fails returns
\* the error and leaves the set as it was.
C25_ListenUnlistenResult ==
    call.op \in {"listen", "unlisten"} =>
        IF ~call.executed
        THEN call.result = "error" /\ call.events = call.before
        ELSE IF call.op = "listen"
        THEN /\ call.events = call.before \cup {call.e}
             /\ call.result = "true" <=> call.e \notin call.before
             /\ call.result \in {"true", "false"}
        ELSE /\ call.events = call.before \ {call.e}
             /\ call.result = "true" <=> call.e \in call.before
             /\ call.result \in {"true", "false"}

\* an unlisten failed on a session that listens to the name and to others
C25_Witness ==
    /\ call.op = "unlisten"
    /\ ~call.executed
    /\ call.e \in call.events
    /\ call.events # {call.e}


----------------------------------------------------------------------------
(***************************************************************************)
(* Settings::from_file.  A channel id is the sequence of its characters;   *)
(* of a ChannelConfig only the id is kept.  call.in holds the channels of  *)
(* the main file and those of the drop-in files, in glob order.            *)
(***************************************************************************)

\* ids written in configuration files
ConfigIds == { <<"o">>, <<"/", "o">>, <<"s">>, <<"/", "/", "s">> }

SeqsUpTo(S, n) == UNION { [1..m -> S] : m \in 0..n }

RECURSIVE TrimStartMatches(_)
\* str::trim_start_matches('/')
TrimStartMatches(s) ==
    IF s # <<>> /\ Head(s) = "/" THEN TrimStartMatches(Tail(s)) ELSE s

\* ChannelConfig::sanitize
SanitizeChannel(c) == [c EXCEPT !.id = TrimStartMatches(c.id)]

\* Settings::sanitize, the channels
Sanitize(chs) == [i \in DOMAIN chs |-> SanitizeChannel(chs[i])]

\* Settings::validate, the channels: an id inserted twice is an error
Validate(chs) ==
    IF \E i, j \in DOMAIN chs : i < j /\ chs[i].id = chs[j].id
    THEN [ok |-> FALSE, error |-> "Config"]
    ELSE [ok |-> TRUE, channels |-> chs]

\* Settings::build: deserialize, sanitize, validate
Build(chs) == Validate(Sanitize(chs))

\* Settings::read_channel_configs: append the channels of each drop-in file
ReadChannelConfigs(chs, dropins) == [ok |-> TRUE, channels |-> chs \o dropins]

\* Settings::from_file: build(..).and_then(read_channel_configs)
FromFile(in) ==
    IF Build(in.file).ok
    THEN ReadChannelConfigs(Build(in.file).channels, in.dropins)
    ELSE Build(in.file)

FromFileCall ==
    /\ call.op = "configuration"
    /\ call' = [op |-> "from_file", in |-> call.in, out |-> FromFile(call.in)]
    /\ UNCHANGED <<settings, boot, pool, fwd, nfwd, sq, channels, boundTo, dq, nread,
                   nrecv, outEvent, nextId, dlog, bus, receivers, sendErrors, sweep,
                   nlost, strays, rlock, workerVars>>

ConfigFiles ==
    { [file |-> f, dropins |-> d] :
        f \in SeqsUpTo({ [id |-> s] : s \in ConfigIds }, MaxFileChannels),
        d \in SeqsUpTo({ [id |-> s] : s \in ConfigIds }, MaxDropInChannels) }

InitSettings ==
    InitCalls(PipelineSettings, { [op |-> "configuration", in |-> i] : i \in ConfigFiles })

SpecSettings == InitSettings /\ [][FromFileCall]_vars

\* C26: the channels of every Settings that from_file returns have ids
\* without a leading '/', no two of them equal.
C26_IdsTrimmedAndDistinct ==
    (call.op = "from_file" /\ call.out.ok) =>
        LET chs == call.out.channels
        IN  /\ \A i \in DOMAIN chs : chs[i].id = <<>> \/ Head(chs[i].id) # "/"
            /\ \A i, j \in DOMAIN chs : i # j => chs[i].id # chs[j].id


----------------------------------------------------------------------------
\* C27 (checked under Spec): once add_connection has failed during
\* EventDispatch::connect the startup has failed and the process is over:
\* the dispatch loop takes nothing, no reconnect sweep starts, no worker
\* serves a subscription or listens to the bus, and no step is left.
C27_FailedStartupStartsNothing ==
    boot.error =>
        /\ boot.status = "failed"
        /\ dlog = NoDispatch /\ bus.version = 0 /\ sweep = NoSweep
        /\ ~ENABLED Dispatch
        /\ ~ENABLED ReconnectStart
        /\ \A w \in Workers :
              /\ ~ENABLED WorkerChanged(w)
              /\ \A path \in SubscribePaths, hdr \in IdentityHeaders :
                    ~ENABLED Subscribe(w, path, hdr)
        /\ ~ENABLED Next

\* the startup failed on a later channel while a notification of a session
\* connected before was already in the dispatcher's queue
C27_Witness ==
    /\ boot.error
    /\ Len(pool) > 0
    /\ dq # <<>>


----------------------------------------------------------------------------
(***************************************************************************)
(* pg-config: load_pg_config.  An Option is a sequence of length 0 or 1.   *)
(* A connection string is its list of key=value pairs, the leading         *)
(* service=NAME apart; a service file is absent or holds the sections it   *)
(* names, each with the same list of pairs.  call.in holds the argument,   *)
(* the environment and the file system.                                    *)
(***************************************************************************)

\* tokio_postgres::Config::new(), the fields set_parameter can touch
NewConfig ==
    [user |-> <<>>, password |-> <<>>, dbname |-> <<>>, options |-> <<>>,
     application_name |-> <<>>, hosts |-> <<>>, ports |-> <<>>,
     connect_timeout |-> <<>>, ssl_mode |-> "prefer", keepalives |-> TRUE,
     keepalives_idle |-> 7200, channel_binding |-> "prefer"]

\* str::parse of the decimal strings the model uses
Numbers == ("1234" :> 1234) @@ ("5433" :> 5433) @@ ("6543" :> 6543) @@ ("10" :> 10)
ParseNumber(v) == IF v \in DOMAIN Numbers THEN <<Numbers[v]>> ELSE <<>>

Modes == {"disable", "prefer", "require"}

Ok(config) == [ok |-> TRUE, config |-> config]
Err(error) == [ok |-> FALSE, error |-> error]

\* Config::from_str, one key=value pair: the builder method of the key
ConfigParam(config, k, v) ==
    CASE k \in {"user", "password", "dbname", "options", "application_name"} ->
            Ok([config EXCEPT ![k] = <<v>>])
      [] k = "host" -> Ok([config EXCEPT !.hosts = Append(@, v)])
      [] k = "port" ->
            IF ParseNumber(v) = <<>> THEN Err("PostgresConfig")
            ELSE Ok([config EXCEPT !.ports = Append(@, ParseNumber(v)[1])])
      [] k = "connect_timeout" ->
            IF ParseNumber(v) = <<>> THEN Err("PostgresConfig")
            ELSE Ok([config EXCEPT !.connect_timeout = ParseNumber(v)])
      [] k = "sslmode" ->
            IF v \in Modes THEN Ok([config EXCEPT !.ssl_mode = v])
            ELSE Err("PostgresConfig")
      [] k = "channel_binding" ->
            IF v \in Modes THEN Ok([config EXCEPT !.channel_binding = v])
            ELSE Err("PostgresConfig")
      [] OTHER -> Err("PostgresConfig")

\* set_parameter
SetParameter(config, k, v) ==
    CASE k \in {"user", "password", "dbname", "options"} ->
            IF config[k] = <<>> THEN Ok([config EXCEPT ![k] = <<v>>]) ELSE Ok(config)
      [] k \in {"host", "hostaddr"} ->
            IF config.hosts = <<>> THEN Ok([config EXCEPT !.hosts = <<v>>]) ELSE Ok(config)
      [] k = "port" ->
            IF config.ports # <<>> THEN Ok(config)
            ELSE IF ParseNumber(v) = <<>> THEN Err("InvalidPort")
            ELSE Ok([config EXCEPT !.ports = ParseNumber(v)])
      [] k = "connect_timeout" ->
            IF config.connect_timeout # <<>> THEN Ok(config)
            ELSE IF ParseNumber(v) = <<>> THEN Err("InvalidConnectTimeout")
            ELSE Ok([config EXCEPT !.connect_timeout = ParseNumber(v)])
      [] k = "sslmode" ->
            IF v \in Modes THEN Ok([config EXCEPT !.ssl_mode = v])
            ELSE Err("InvalidSslMode")
      [] k = "keepalives" ->
            IF v \in {"0", "1"} THEN Ok([config EXCEPT !.keepalives = (v = "1")])
            ELSE Err("InvalidKeepalives")
      [] k = "keepalives_idle" ->
            IF ParseNumber(v) = <<>> THEN Err("InvalidKeepalivesIdle")
            ELSE Ok([config EXCEPT !.keepalives_idle = ParseNumber(v)[1]])
      [] k = "channel_binding" ->
            IF v \in Modes THEN Ok([config EXCEPT !.channel_binding = v])
            ELSE Err("InvalidChannelBinding")
      [] OTHER -> Ok(config)

RECURSIVE FromPairs(_, _)
\* Config::from_str over the pairs of a connection string
FromPairs(config, pairs) ==
    IF pairs = <<>> THEN Ok(config)
    ELSE LET r == ConfigParam(config, pairs[1][1], pairs[1][2])
         IN  IF r.ok THEN FromPairs(r.config, Tail(pairs)) ELSE r

FromStr(pairs) == FromPairs(NewConfig, pairs)

RECURSIVE SetParameters(_, _)
\* params.iter().try_for_each(|(k, v)| set_parameter(config, k, v))
SetParameters(config, pairs) ==
    IF pairs = <<>> THEN Ok(config)
    ELSE LET r == SetParameter(config, pairs[1][1], pairs[1][2])
         IN  IF r.ok THEN SetParameters(r.config, Tail(pairs)) ELSE r

\* Path::join
Join(dir, name) == dir \o "/" \o name

\* user_service_file and sysconf_service_file
UserServiceFile(env) ==
    IF env["PGSERVICEFILE"] # <<>> THEN env["PGSERVICEFILE"]
    ELSE IF env["HOME"] # <<>> THEN <<Join(env["HOME"][1], ".pg_service.conf")>>
    ELSE <<>>

SysconfServiceFile(env) ==
    IF env["PGSYSCONFDIR"] # <<>> THEN <<Join(env["PGSYSCONFDIR"][1], "pg_service.conf")>>
    ELSE <<>>

\* get_service_params: [ok, found, config] or an error
GetServiceParams(config, path, service_name, fs) ==
    IF ~fs[path].exists THEN Err("PgServiceFileNotFound")
    ELSE IF service_name \in fs[path].sections
    THEN LET r == SetParameters(config, fs[path].params)
         IN  IF r.ok THEN [ok |-> TRUE, found |-> TRUE, config |-> r.config]
             ELSE r
    ELSE [ok |-> TRUE, found |-> FALSE, config |-> config]

\* load_config_from_service
LoadConfigFromService(config, service_name, env, fs) ==
    LET user == IF UserServiceFile(env) = <<>>
                THEN [ok |-> TRUE, found |-> FALSE, config |-> config]
                ELSE GetServiceParams(config, UserServiceFile(env)[1], service_name, fs)
    IN  IF ~user.ok THEN user
        ELSE IF user.found THEN Ok(user.config)
        ELSE LET sys == IF SysconfServiceFile(env) = <<>>
                        THEN [ok |-> TRUE, found |-> FALSE, config |-> user.config]
                        ELSE GetServiceParams(user.config, SysconfServiceFile(env)[1],
                                              service_name, fs)
             IN  IF ~sys.ok THEN sys
                 ELSE IF sys.found THEN Ok(sys.config)
                 ELSE Err("PgServiceNotFound")

\* the table ENV of load_config_from_env
ENV ==
    << <<"PGHOST", "host">>, <<"PGPORT", "port">>, <<"PGDATABASE", "dbname">>,
       <<"PGUSER", "user">>, <<"PGOPTIONS", "options">>,
       <<"PGAPPNAME", "application_name">>,
       <<"PGCONNECT_TIMEOUT", "connect_timeout">> >>

RECURSIVE LoadEnvFrom(_, _, _)
LoadEnvFrom(config, env, i) ==
    IF i > Len(ENV) THEN Ok(config)
    ELSE IF env[ENV[i][1]] = <<>> THEN LoadEnvFrom(config, env, i + 1)
    ELSE LET r == SetParameter(config, ENV[i][2], env[ENV[i][1]][1])
         IN  IF r.ok THEN LoadEnvFrom(r.config, env, i + 1) ELSE r

\* load_config_from_env
LoadConfigFromEnv(config, env) == LoadEnvFrom(config, env, 1)

\* load_pg_config up to the call of load_config_from_env: the Config made
\* from the connection string, then the service named by the string or by
\* PGSERVICE
BeforeEnv(in) ==
    LET pairs == IF in.cnx.given THEN in.cnx.pairs ELSE <<>>
        service == IF in.cnx.given /\ in.cnx.service # <<>> THEN in.cnx.service
                   ELSE in.env["PGSERVICE"]
        parsed == FromStr(pairs)
    IN  IF ~parsed.ok THEN parsed
        ELSE IF service = <<>> THEN parsed
        ELSE LoadConfigFromService(parsed.config, service[1], in.env, in.fs)

\* load_pg_config
LoadPgConfig(in) ==
    IF BeforeEnv(in).ok THEN LoadConfigFromEnv(BeforeEnv(in).config, in.env)
    ELSE BeforeEnv(in)

\* the service load_pg_config looks for, if any
ServiceAsked(in) ==
    IF in.cnx.given /\ in.cnx.service # <<>> THEN in.cnx.service
    ELSE in.env["PGSERVICE"]

\* connection strings given to load_pg_config
NoPairs == <<>>
ConnectionStrings ==
    { [given |-> FALSE],
      [given |-> TRUE, service |-> <<>>, pairs |-> << <<"user", "baz">> >>],
      [given |-> TRUE, service |-> <<>>, pairs |-> << <<"sslmode", "require">> >>],
      [given |-> TRUE, service |-> <<>>,
       pairs |-> << <<"port", "5433">>, <<"application_name", "cli">> >>],
      [given |-> TRUE, service |-> <<"bar">>, pairs |-> NoPairs],
      [given |-> TRUE, service |-> <<"bar">>, pairs |-> << <<"user", "baz">> >>],
      [given |-> TRUE, service |-> <<"bar">>, pairs |-> << <<"sslmode", "require">> >>] }

\* the variables load_pg_config reads, each unset or set to one value;
\* PGHOST, PGDATABASE, PGOPTIONS and PGCONNECT_TIMEOUT are left unset
Environments ==
    { [PGSERVICE |-> service, PGSERVICEFILE |-> file, HOME |-> home,
       PGSYSCONFDIR |-> dir, PGHOST |-> <<>>, PGPORT |-> port, PGDATABASE |-> <<>>,
       PGUSER |-> user, PGOPTIONS |-> <<>>, PGAPPNAME |-> app,
       PGCONNECT_TIMEOUT |-> <<>>] :
        service \in {<<>>, <<"bar">>}, file \in {<<>>, <<"/srv/pg.conf">>},
        home \in {<<>>, <<"/home/u">>}, dir \in {<<>>, <<"/etc">>},
        port \in {<<>>, <<"6543">>}, user \in {<<>>, <<"envuser">>},
        app \in {<<>>, <<"envapp">>} }

\* service files: absent, without the section bar, or with it
UserBlock == << <<"user", "ubar">>, <<"sslmode", "disable">> >>
SystemBlock ==
    << <<"user", "bar">>, <<"host", "bar.com">>, <<"port", "1234">>,
       <<"dbname", "bardb">>, <<"sslmode", "disable">> >>
ServiceFiles(block) ==
    { [exists |-> FALSE, sections |-> {}, params |-> NoPairs],
      [exists |-> TRUE, sections |-> {}, params |-> NoPairs],
      [exists |-> TRUE, sections |-> {"bar"}, params |-> block] }

ServicePaths == { "/srv/pg.conf", "/home/u/.pg_service.conf", "/etc/pg_service.conf" }

FileSystems ==
    { f \in [ServicePaths -> ServiceFiles(UserBlock) \cup ServiceFiles(SystemBlock)] :
        /\ f["/etc/pg_service.conf"] \in ServiceFiles(SystemBlock)
        /\ f["/srv/pg.conf"] \in ServiceFiles(UserBlock)
        /\ f["/home/u/.pg_service.conf"] \in ServiceFiles(UserBlock) }

PgConfigInputs ==
    { [cnx |-> c, env |-> e, fs |-> f] :
        c \in ConnectionStrings, e \in Environments, f \in FileSystems }

LoadPgConfigCall ==
    /\ call.op = "arguments"
    /\ call' = [op |-> "load_pg_config", in |-> call.in,
                before_env |-> BeforeEnv(call.in), out |-> LoadPgConfig(call.in)]
    /\ UNCHANGED <<settings, boot, pool, fwd, nfwd, sq, channels, boundTo, dq, nread,
                   nrecv, outEvent, nextId, dlog, bus, receivers, sendErrors, sweep,
                   nlost, strays, rlock, workerVars>>

InitPgConfig ==
    InitCalls(PipelineSettings, { [op |-> "arguments", in |-> i] : i \in PgConfigInputs })

SpecPgConfig == InitPgConfig /\ [][LoadPgConfigCall]_vars

\* the field of Config a connection parameter sets
FieldOf(k) ==
    CASE k = "host" -> "hosts"
      [] k = "port" -> "ports"
      [] k = "sslmode" -> "ssl_mode"
      [] OTHER -> k

\* C28: in the Config load_pg_config returns, every parameter written in
\* the connection string has the value the string gives it.
C28_ConnectionStringWins ==
    (call.op = "load_pg_config" /\ call.out.ok /\ call.in.cnx.given) =>
        \A i \in DOMAIN call.in.cnx.pairs :
            LET f == FieldOf(call.in.cnx.pairs[i][1])
            IN  call.out.config[f] = FromStr(call.in.cnx.pairs).config[f]

\* C29: load_config_from_env leaves every field that was set before it as
\* it was, and gives every other field of its table the value of its
\* variable, when that is set.
C29_EnvFillsUnsetOnly ==
    (call.op = "load_pg_config" /\ call.out.ok) =>
        \A i \in DOMAIN ENV :
            LET f == FieldOf(ENV[i][2])
                v == call.in.env[ENV[i][1]]
                before == call.before_env.config[f]
            IN  IF before # <<>> \/ v = <<>>
                THEN call.out.config[f] = before
                ELSE call.out.config[f] = FromStr(<< <<ENV[i][2], v[1]>> >>).config[f]

\* a file defines the section of the service
Defines(file, service_name) == file.exists /\ service_name \in file.sections

\* C30: when the system-wide service file defines the service asked for,
\* load_pg_config succeeds, whether or not a user-level file exists or
\* defines it; and PgServiceNotFound is returned only when no file that was
\* searched defines the service.
C30_SystemServiceFileFound ==
    (call.op = "load_pg_config" /\ ServiceAsked(call.in) # <<>>) =>
        LET name == ServiceAsked(call.in)[1]
            user == UserServiceFile(call.in.env)
            sys == SysconfServiceFile(call.in.env)
        IN  /\ (sys # <<>> /\ Defines(call.in.fs[sys[1]], name)) => call.out.ok
            /\ (~call.out.ok /\ call.out.error = "PgServiceNotFound") =>
                  /\ user # <<>> => ~Defines(call.in.fs[user[1]], name)
                  /\ sys # <<>> => ~Defines(call.in.fs[sys[1]], name)


----------------------------------------------------------------------------
(***************************************************************************)
(* pg-config: get_password_from_passfile.  A line of the passfile is the   *)
(* sequence of its fields, as line.trim().split(':') yields them; an empty *)
(* line is the one field "".  call.in holds the Config and the passfile.   *)
(***************************************************************************)

\* lines that start with '#'
CommentLines == { <<"# comment">> }

PassLines ==
    CommentLines \cup
    { <<"">>,
      <<"h", "5432", "d", "u", "p1">>,
      <<"*", "*", "*", "*", "p2">>,
      <<"h", "*", "e", "u", "p3">>,
      <<"x", "bad", "d", "u", "p4">>,
      <<"h", "bad", "d", "u", "p5">>,
      <<"h", "5432", "d", "u">> }

\* the Configs given to get_password_from_passfile
PassConfigs ==
    { [NewConfig EXCEPT !.hosts = <<"h">>, !.ports = <<5432>>, !.dbname = <<"d">>,
                        !.user = <<"u">>],
      [NewConfig EXCEPT !.hosts = <<"h">>, !.dbname = <<"e">>, !.user = <<"u">>],
      [NewConfig EXCEPT !.hosts = <<"g", "h">>, !.ports = <<5432>>, !.dbname = <<"d">>,
                        !.user = <<"v">>] }

Numbers16 == Numbers @@ ("5432" :> 5432)

\* a match_dbname that accepts every value
MatchDbnameAny(value, config) == TRUE

\* match_host, match_port (for a port field that parses), match_dbname,
\* match_username
MatchHost(value, config) == value = "*" \/ \E i \in DOMAIN config.hosts : config.hosts[i] = value
MatchPort(value, config) ==
    value = "*" \/ \E i \in DOMAIN config.ports : config.ports[i] = Numbers16[value]
MatchDbname(value, config) == value = "*" \/ config.dbname = <<value>>
MatchUsername(value, config) == value = "*" \/ config.user = <<value>>

\* get_password: [ok, password] with password an Option, or an error; the
\* fields are taken and tested from left to right, && stops at the first
\* one that does not match
GetPassword(line, config) ==
    IF ~MatchHost(line[1], config) THEN [ok |-> TRUE, password |-> <<>>]
    ELSE IF Len(line) < 2 THEN Err("PassfileParseError")
    ELSE IF line[2] # "*" /\ line[2] \notin DOMAIN Numbers16 THEN Err("PassfileParseError")
    ELSE IF ~MatchPort(line[2], config) THEN [ok |-> TRUE, password |-> <<>>]
    ELSE IF Len(line) < 3 THEN Err("PassfileParseError")
    ELSE IF ~MatchDbname(line[3], config) THEN [ok |-> TRUE, password |-> <<>>]
    ELSE IF Len(line) < 4 THEN Err("PassfileParseError")
    ELSE IF ~MatchUsername(line[4], config) THEN [ok |-> TRUE, password |-> <<>>]
    ELSE IF Len(line) < 5 THEN Err("PassfileParseError")
    ELSE [ok |-> TRUE, password |-> <<line[5]>>]

\* l.is_empty() || l.starts_with('#')
Skipped(line) == line = <<"">> \/ line \in CommentLines

RECURSIVE ReadLines(_, _)
\* the try_for_each over the lines of the passfile
ReadLines(config, lines) ==
    IF lines = <<>> THEN Ok(config)
    ELSE IF Skipped(Head(lines)) THEN ReadLines(config, Tail(lines))
    ELSE LET r == GetPassword(Head(lines), config)
         IN  IF ~r.ok THEN r
             ELSE IF r.password # <<>> THEN Ok([config EXCEPT !.password = r.password])
             ELSE ReadLines(config, Tail(lines))

\* get_password_from_passfile; file is what get_passfile names, if anything
GetPasswordFromPassfile(config, file) ==
    IF ~file.named THEN Ok(config)
    ELSE IF file.mode # "600" THEN Err("InvalidPassFileMode")
    ELSE ReadLines(config, file.lines)

Passfiles ==
    { [named |-> FALSE, mode |-> "", lines |-> <<>>] } \cup
    { [named |-> TRUE, mode |-> m, lines |-> l] :
        m \in {"600", "644"}, l \in SeqsUpTo(PassLines, MaxPassLines) }

GetPasswordCall ==
    /\ call.op = "passfile"
    /\ call' = [op |-> "get_password_from_passfile", in |-> call.in,
                out |-> GetPasswordFromPassfile(call.in.config, call.in.file)]
    /\ UNCHANGED <<settings, boot, pool, fwd, nfwd, sq, channels, boundTo, dq, nread,
                   nrecv, outEvent, nextId, dlog, bus, receivers, sendErrors, sweep,
                   nlost, strays, rlock, workerVars>>

InitPassfile ==
    InitCalls(PipelineSettings,
              { [op |-> "passfile", in |-> [config |-> c, file |-> f]] :
                  c \in PassConfigs, f \in Passfiles })

SpecPassfile == InitPassfile /\ [][GetPasswordCall]_vars

\* the line is neither empty nor a comment, and each of its first four
\* fields is '*' or equals the value of the Config
LineMatches(line, config) ==
    /\ ~Skipped(line)
    /\ Len(line) >= 4
    /\ MatchHost(line[1], config)
    /\ line[2] = "*" \/ (line[2] \in DOMAIN Numbers16 /\ MatchPort(line[2], config))
    /\ line[3] = "*" \/ config.dbname = <<line[3]>>
    /\ line[4] = "*" \/ config.user = <<line[4]>>

\* the password is that of the first matching line, or untouched when no
\* line matches
FirstMatchDecides ==
    LET config == call.in.config
        lines == call.in.file.lines
        hits == { i \in DOMAIN lines : LineMatches(lines[i], config) }
    IN  IF hits = {}
        THEN call.out.ok /\ call.out.config = config
        ELSE LET first == CHOOSE i \in hits : \A j \in hits : i <= j
             IN  /\ call.out.ok
                 /\ Len(lines[first]) >= 5
                 /\ call.out.config = [config EXCEPT !.password = <<lines[first][5]>>]

\* every line that is read has five fields and a port that is '*' or a number
WellFormed(lines) ==
    \A i \in DOMAIN lines :
        Skipped(lines[i]) \/
            (Len(lines[i]) >= 5 /\ (lines[i][2] = "*" \/ lines[i][2] \in DOMAIN Numbers16))

----------------------------------------------------------------------------
\* C32: a worker broadcasts each published Event at most once: the ids of
\* its broadcasts strictly increase, and no client is sent (has taken, or
\* has queued) two frames with the same event id.
C32_BroadcastAtMostOnce ==
    /\ \A w \in Workers :
          \A i \in 1..Len(bcastLog[w]) : \A j \in 1..Len(bcastLog[w]) :
              i < j => bcastLog[w][i].ev < bcastLog[w][j].ev
    /\ \A c \in Idents :
          LET sent == received[c] \o buf[c]
          IN  \A i \in 1..Len(sent) : \A j \in 1..Len(sent) :
                  i # j => sent[i].id # sent[j].id


----------------------------------------------------------------------------
\* two channels on one session, whose notifications carry the history of
\* the respawns
RespawnSettings ==
    { [channels |->
        << [id |-> "orders", allowed_events |-> <<"a">>,
            connection |-> [host |-> "db1", dbname |-> "shop", user |-> "app", opt |-> "x"]],
           [id |-> "audit", allowed_events |-> <<"a", "b">>,
            connection |-> [host |-> "db1", dbname |-> "shop", user |-> "app", opt |-> "y"]] >>] }

InitRespawn == InitCalls(RespawnSettings, {[op |-> "respawns"]})

SpecRespawn == InitRespawn /\ [][DispatchReconnectNext]_vars

\* the dispatch_id the channels bound to session k were given at startup
StartupTag(k) == channels[CHOOSE i \in 1..Len(channels) : boundTo[i] = k].dispatch_id

\* C33: a notification that arrived on the connection of a respawned
\* session is dispatched as it was before the respawn: the Event lists the
\* ChanIds that the tag given at startup selects for its event, among them
\* every channel bound to the session that allows the event.
C33_BindingsSurviveRespawn ==
    (Dispatched /\ dlog.notification.origin.respawned) =>
        LET k == dlog.notification.origin.sess
            e == dlog.notification.channel
            cand == Candidates(channels, StartupTag(k), e, 1)
        IN  /\ EventBuilt <=> cand # <<>>
            /\ EventBuilt => EventChannels(dlog.event) = cand
            /\ \A i \in 1..Len(channels) :
                  (boundTo[i] = k /\ e \in Range(channels[i].events))
                      => (i - 1) \in Range(cand)

\* a notification read from a respawned session, whose backend pid is no
\* longer the one of startup, was dispatched to the two channels bound to
\* the session
C33_Witness ==
    /\ EventBuilt
    /\ dlog.notification.origin.respawned
    /\ pool[dlog.notification.origin.sess].session_pid # dlog.dispatch_id
    /\ Len(EventChannels(dlog.event)) = 2


----------------------------------------------------------------------------
----------------------------------------------------------------------------
(***************************************************************************)
(* The pipeline under a configuration Settings::from_file returns for a    *)
(* main file and a drop-in file that both define the channel orders: the   *)
(* drop-in channels are appended after validate has run.                   *)
(***************************************************************************)
DropInSettings ==
    { [channels |->
        << [id |-> "orders", allowed_events |-> <<"a">>,
            connection |-> [host |-> "db1", dbname |-> "shop", user |-> "app", opt |-> "x"]],
           [id |-> "orders", allowed_events |-> <<"a", "b">>,
            connection |-> [host |-> "db1", dbname |-> "shop", user |-> "app", opt |-> "y"]] >>] }

InitDropIn == InitWith(DropInSettings)

SpecDropIn == InitDropIn /\ [][PipelineNext]_vars

\* C35: the ChanId under which a worker's Broadcaster registers the
\* subscribers of a channel id is the position of that channel in the
\* dispatcher's channels array, for every channel of the array.
C35_ChanIdIsPosition ==
    \A i \in 1..Len(channels) : SubscriptionId(channels[i].id) = i - 1


----------------------------------------------------------------------------
\* the connected clients of worker w that subscribed to a channel ev lists
Listed(w, ev) ==
    { c \in Idents : /\ clients[c].status = "open"
                     /\ clients[c].worker = w
                     /\ clients[c].id \in Range(EventChannels(ev)) }

----------------------------------------------------------------------------
\* EventDispatch::connect alone, for every configuration: the loop over the
\* configured channels, up to its success or its error
StartupNext == AddConnection \/ AddConnectionFails

SpecStartup == Init /\ [][StartupNext]_vars

\* the allowed_events of all the channels bound to session k
AllowedOn(k) ==
    UNION { Range(channels[i].events) : i \in { j \in 1..Len(channels) : boundTo[j] = k } }

\* C37: once startup has succeeded, the events set of every session of the
\* pool is the union of the allowed_events of the channels bound to it, and
\* the channels registered on its connection are those that a LISTEN for
\* each of these events registers.
C37_ListenedIsUnionOfAllowed ==
    boot.status = "running" =>
        \A k \in 1..Len(pool) :
            /\ pool[k].events = AllowedOn(k)
            /\ pool[k].listening = Listening(AllowedOn(k))

\* startup succeeded with two channels of different allowed_events bound to
\* one session
C37_Witness ==
    /\ boot.status = "running"
    /\ \E i, j \in 1..Len(channels) :
          /\ i # j
          /\ boundTo[i] = boundTo[j]
          /\ Range(channels[i].events) # {}
          /\ Range(channels[j].events) # {}
          /\ ~(Range(channels[j].events) \subseteq Range(channels[i].events))
          /\ ~(Range(channels[i].events) \subseteq Range(channels[j].events))
          /\ pool[boundTo[i]].events = Range(channels[i].events) \cup Range(channels[j].events)


----------------------------------------------------------------------------
(***************************************************************************)
(* pg-notify-hub: Broadcaster::broadcast_event.  The table maps a channel  *)
(* id (a String) to its Vec of clients; call.in holds the table, the       *)
(* channels of the Event and the clients whose receiver is dropped.        *)
(***************************************************************************)
\* the tables: up to two clients subscribed to x, up to one to y
HubTables ==
    { [x |-> bx, y |-> by] :
        bx \in { <<>>, <<"c1">>, <<"c2">>, <<"c1", "c2">>, <<"c2", "c1">> },
        by \in { <<>>, <<"c3">> } }

HubEvents == { <<"x">>, <<"y">>, <<"x", "y">> }

HubClients == {"c1", "c2", "c3"}

\* the idents join_all collects: the clients of the listed buckets whose
\* send returned an error
HubFailed(table, chs, closed) ==
    { c \in closed : \E i \in DOMAIN chs : c \in Range(table[chs[i]]) }

\* pool.retain(|chan| { let closed = res.contains(&chan.ident); ..; closed })
HubRetain(bucket, res) == SelectSeq(bucket, LAMBDA c : c \in res)

\* the table after broadcast_event
HubBroadcastEvent(table, chs, closed) ==
    LET res == HubFailed(table, chs, closed)
    IN  IF res = {} THEN table
        ELSE [k \in DOMAIN table |->
                IF k \in Range(chs) THEN HubRetain(table[k], res) ELSE table[k]]

HubBroadcastCall ==
    /\ call.op = "hub_event"
    /\ call' = [op |-> "broadcast_event", in |-> call.in,
                out |-> HubBroadcastEvent(call.in.subs, call.in.channels, call.in.closed)]
    /\ UNCHANGED <<settings, boot, pool, fwd, nfwd, sq, channels, boundTo, dq, nread,
                   nrecv, outEvent, nextId, dlog, bus, receivers, sendErrors, sweep,
                   nlost, strays, rlock, workerVars>>

InitHub ==
    InitCalls(PipelineSettings,
              { [op |-> "hub_event", in |-> [subs |-> s, channels |-> chs, closed |-> cl]] :
                  s \in HubTables, chs \in HubEvents, cl \in SUBSET HubClients })

SpecHub == InitHub /\ [][HubBroadcastCall]_vars

\* C38: after a broadcast in which some sends failed, every bucket the
\* event lists holds the clients whose send succeeded, in their order, and
\* none of the clients whose send failed.
C38_HubKeepsOkReapsFailed ==
    call.op = "broadcast_event" =>
        LET failed == HubFailed(call.in.subs, call.in.channels, call.in.closed)
        IN  failed # {} =>
                \A k \in Range(call.in.channels) :
                    call.out[k] = SelectSeq(call.in.subs[k], LAMBDA c : c \notin failed)


----------------------------------------------------------------------------
(***************************************************************************)
(* utils::Values and the ChanIds of the dispatch loop.  call.in is the     *)
(* sequence the iterator yields.                                           *)
(***************************************************************************)
ValueItems == 0..3

\* a from_iter that always allocates
FromIterMany(s) == Many(s)

\* Values::from_iter
FromIter(s) ==
    IF s = <<>> THEN Many(<<>>)
    ELSE IF Len(s) = 1 THEN One(s[1])
    ELSE Many(<<s[1]>> \o <<s[2]>> \o SubSeq(s, 3, Len(s)))

\* Values::as_slice
AsSlice(values) == IF values.tag = "One" THEN <<values.v[1]>> ELSE values.v

\* Values::is_empty
IsEmpty(values) == IF values.tag = "One" THEN FALSE ELSE values.v = <<>>

\* what the filter_map of the dispatch loop can yield: positions of the
\* channels array in increasing order, at least one when a ChanIds is built
CandidateLists ==
    { s \in SeqsUpTo(ValueItems, MaxValues) :
        s # <<>> /\ \A i \in 1..(Len(s) - 1) : s[i] < s[i + 1] }

FromIterCall ==
    /\ call.op = "iterator"
    /\ call' = [op |-> "from_iter", in |-> call.in,
                out |-> [values |-> FromIter(call.in),
                         slice |-> AsSlice(FromIter(call.in)),
                         is_empty |-> IsEmpty(FromIter(call.in))]]
    /\ UNCHANGED <<settings, boot, pool, fwd, nfwd, sq, channels, boundTo, dq, nread,
                   nrecv, outEvent, nextId, dlog, bus, receivers, sendErrors, sweep,
                   nlost, strays, rlock, workerVars>>

\* the ChanIds of the dispatch loop, and Event::channels on the Event
ChanIdsCall ==
    /\ call.op = "candidates"
    /\ call' = [op |-> "chan_ids", in |-> call.in,
                out |-> [values |-> MakeChanIds(call.in),
                         slice |-> EventChannels([channels |-> MakeChanIds(call.in)])]]
    /\ UNCHANGED <<settings, boot, pool, fwd, nfwd, sq, channels, boundTo, dq, nread,
                   nrecv, outEvent, nextId, dlog, bus, receivers, sendErrors, sweep,
                   nlost, strays, rlock, workerVars>>

InitValues ==
    InitCalls(PipelineSettings,
              { [op |-> "iterator", in |-> s] : s \in SeqsUpTo(ValueItems, MaxValues) }
              \cup { [op |-> "candidates", in |-> s] : s \in CandidateLists })

ValuesNext == FromIterCall \/ ChanIdsCall

SpecValues == InitValues /\ [][ValuesNext]_vars

\* C39: from_iter followed by as_slice gives back the input sequence; the
\* result is the One variant exactly when the input has one element, and
\* is_empty() is true exactly when the input is empty; the ChanIds of the
\* dispatch loop follow the same rule.
C39_ValuesRoundTrip ==
    /\ call.op = "from_iter" =>
          /\ call.out.slice = call.in
          /\ call.out.values.tag = "One" <=> Len(call.in) = 1
          /\ call.out.is_empty <=> call.in = <<>>
    /\ call.op = "chan_ids" =>
          /\ call.out.slice = call.in
          /\ call.out.values.tag = "One" <=> Len(call.in) = 1

\* three items, one of them twice, came back in their order from a Many
C39_Witness ==
    /\ call.op = "from_iter"
    /\ call.in = <<2, 1, 2>>
    /\ call.out.values.tag = "Many"
    /\ call.out.slice = <<2, 1, 2>>
    /\ ~call.out.is_empty

=============================================================================
